---------------------------- MODULE Spec2Model ----------------------------
(***************************************************************************)
(* A model of the three command-line utilities of the repository:          *)
(*   P1  computeStatistics.py  (quicksort, sqrt_newton, mean, median,      *)
(*                              mode, sample variance, standard deviation) *)
(*   P2  convertNumbers.py     (convert_to_binary, convert_to_hexadecimal) *)
(*   P3  wordCount.py          (read_words, count_words, format_results)   *)
(*                                                                         *)
(* Numbers.  The datasets of P1 are Python floats.  A dataset is modelled  *)
(* as a sequence of integer-valued numbers; every value computed from it   *)
(* (mean, median, variance) is an exact rational <<num, den>> in lowest    *)
(* terms with den > 0.  The Newton iteration of sqrt_newton rounds each    *)
(* new estimate to FracBits binary places, as a float rounds each result   *)
(* to its mantissa; NaN and the infinities are not modelled.               *)
(* Python ints are unbounded; a value that can exceed 31 bits (the 32-bit  *)
(* field of convert_to_hexadecimal) is kept as two 16-bit limbs.           *)
(* The strings of P2 are sequences of one-character strings; those of P3,  *)
(* whose characters are classified, compared and shifted, are sequences of *)
(* code points.                                                            *)
(*                                                                         *)
(* P1 is modelled from the version after pylint, which splits main into    *)
(* functions; the version before pylint runs the same steps inline in      *)
(* main, behind the same emptiness test.                                   *)
(***************************************************************************)
EXTENDS Integers, Sequences, FiniteSets, TLC

VARIABLES
    pc,        \* position of the running program
    entry,     \* the function the run entered by
    data,      \* P1: the dataset (list of numbers)
    stats,     \* P1: the dict compute_statistics fills, key by key
    sorted_data, \* P1: calculate_median's sorted copy of the dataset
    err,       \* the exception that ended the run, or "none"
    x,         \* sqrt_newton: the argument
    guess,     \* sqrt_newton: the current estimate
    iter,      \* sqrt_newton: refinement steps performed so far
    divs,      \* sqrt_newton: divisions by guess performed so far
    ret,       \* sqrt_newton: the value returned
    numIdx,    \* P2: number of input lines converted so far
    num,       \* P2: the integer last converted
    binario,   \* P2: convert_to_binary(num)
    hexadecimal, \* P2: convert_to_hexadecimal(num)
    lineNo,    \* P3 read_words: lines of the file read so far
    line,      \* P3 read_words: the line being read, as it is in the file
    lineWords, \* P3 read_words: the words appended to words for this line
    wordsLen,  \* P3 read_words: len(words) before this line
    words,     \* P3 main: the list read_words returned
    freq,      \* P3: the dict count_words returned
    keys,      \* P3 format_results: the list of keys being sorted
    sortI,     \* P3 format_results: i of the outer loop
    sortJ,     \* P3 format_results: j of the inner loop
    results    \* P3 format_results: the (word, frequency) lines emitted

vars == <<pc, entry, data, stats, sorted_data, err, x, guess, iter, divs, ret,
          numIdx, num, binario, hexadecimal,
          lineNo, line, lineWords, wordsLen, words, freq, keys, sortI, sortJ, results>>

statVars == <<data, stats, sorted_data>>
sqrtVars == <<x, guess, iter, divs, ret>>
convVars == <<numIdx, num, binario, hexadecimal>>
readVars == <<lineNo, line, lineWords, wordsLen>>
countVars == <<words, freq, keys, sortI, sortJ, results>>
wordVars == <<readVars, countVars>>

(***************************************************************************)
(* Bounds of the model.                                                    *)
(***************************************************************************)
MaxLen == 5
MaxVal == 1
FracBits == 5

Values == (0 - 1)..MaxVal
Datasets == UNION {[1..n -> Values] : n \in 0..MaxLen}
Scale == 2 ^ FracBits

(***************************************************************************)
(* Exact rational arithmetic, standing for the float operators of P1.      *)
(***************************************************************************)
Abs(a) == IF a < 0 THEN 0 - a ELSE a

RECURSIVE Gcd(_, _)
Gcd(a, b) == IF b = 0 THEN a ELSE Gcd(b, a % b)

Norm(n, d) ==
    LET s == IF d < 0 THEN 0 - 1 ELSE 1
        g == Gcd(Abs(n), Abs(d))
    IN  <<(s * n) \div g, (s * d) \div g>>

Rat(i) == <<i, 1>>
Zero == Rat(0)
RAdd(a, b) == Norm(a[1] * b[2] + b[1] * a[2], a[2] * b[2])
RSub(a, b) == Norm(a[1] * b[2] - b[1] * a[2], a[2] * b[2])
RMul(a, b) == Norm(a[1] * b[1], a[2] * b[2])
RDiv(a, b) == Norm(a[1] * b[2], a[2] * b[1])
RLess(a, b) == a[1] * b[2] < b[1] * a[2]

\* The nearest multiple of 1/Scale (halves rounded up): one rounded float result.
RoundQ(q) ==
    LET i == q[1] \div q[2]
        r == q[1] % q[2]
    IN  Norm(i * Scale + ((2 * r * Scale + q[2]) \div (2 * q[2])), Scale)

(***************************************************************************)
(* Python list indexing: a negative index counts from the end; an index    *)
(* outside the list raises IndexError.                                     *)
(***************************************************************************)
PyIndexOk(s, i) == (0 - Len(s)) <= i /\ i < Len(s)
PyIndex(s, i) == IF i < 0 THEN s[Len(s) + i + 1] ELSE s[i + 1]

(***************************************************************************)
(* quicksort(arr)                                                          *)
(***************************************************************************)
Pivot(arr) == arr[(Len(arr) \div 2) + 1]
LeftOf(arr) == LET p == Pivot(arr) IN SelectSeq(arr, LAMBDA e : e < p)
\* Mutant of MiddleOf: the pivot alone, its duplicates dropped.
MiddleOfPivotOnly(arr) == <<Pivot(arr)>>
MiddleOf(arr) == LET p == Pivot(arr) IN SelectSeq(arr, LAMBDA e : ~(e < p) /\ e = p)
RightOf(arr) == LET p == Pivot(arr) IN SelectSeq(arr, LAMBDA e : ~(e < p) /\ ~(e = p))

RECURSIVE quicksort(_)
quicksort(arr) ==
    IF Len(arr) <= 1
    THEN arr
    ELSE quicksort(LeftOf(arr)) \o MiddleOf(arr) \o quicksort(RightOf(arr))

(***************************************************************************)
(* calculate_mean(data)                                                    *)
(***************************************************************************)
RECURSIVE SumTo(_, _)
SumTo(s, k) == IF k = 0 THEN 0 ELSE SumTo(s, k - 1) + s[k]

calculate_mean(d) ==
    LET total == SumTo(d, Len(d))
        count == Len(d)
    IN  IF count > 0 THEN RDiv(Rat(total), Rat(count)) ELSE Zero

(***************************************************************************)
(* calculate_median(data): the result, or the exception the indexing       *)
(* raises.                                                                 *)
(***************************************************************************)
MedianRaises(d) ==
    LET sorted == quicksort(d)
        n == Len(sorted)
    IN  IF n % 2 = 1
        THEN ~PyIndexOk(sorted, n \div 2)
        ELSE ~PyIndexOk(sorted, (n \div 2) - 1) \/ ~PyIndexOk(sorted, n \div 2)

\* Mutant of calculate_median: the middle of the data as read, not sorted.
calculate_median_unsorted(d) ==
    LET n == Len(d)
    IN  IF n % 2 = 1
        THEN Rat(PyIndex(d, n \div 2))
        ELSE RDiv(Rat(PyIndex(d, (n \div 2) - 1) + PyIndex(d, n \div 2)), Rat(2))

calculate_median(d) ==
    LET sorted == quicksort(d)
        n == Len(sorted)
    IN  IF n % 2 = 1
        THEN Rat(PyIndex(sorted, n \div 2))
        ELSE RDiv(Rat(PyIndex(sorted, (n \div 2) - 1) + PyIndex(sorted, n \div 2)),
                  Rat(2))

(***************************************************************************)
(* calculate_mode(data).  A dict is a sequence of [key, val] entries in    *)
(* insertion order, which is the order Python iterates it in.              *)
(***************************************************************************)
DictKeys(f) == {f[i].key : i \in 1..Len(f)}
DictGet(f, k, default) ==
    IF k \in DictKeys(f)
    THEN (CHOOSE e \in {f[i] : i \in 1..Len(f)} : e.key = k).val
    ELSE default
DictSet(f, k, v) ==
    IF k \in DictKeys(f)
    THEN [i \in 1..Len(f) |-> IF f[i].key = k THEN [key |-> k, val |-> v] ELSE f[i]]
    ELSE Append(f, [key |-> k, val |-> v])

RECURSIVE Frequency(_, _)
Frequency(d, k) ==
    IF k = 0
    THEN << >>
    ELSE LET f == Frequency(d, k - 1)
         IN  DictSet(f, d[k], DictGet(f, d[k], 0) + 1)

RECURSIVE MaxVals(_, _, _)
MaxVals(f, k, default) ==
    IF k = 0
    THEN default
    ELSE LET m == MaxVals(f, k - 1, default)
         IN  IF k = 1 \/ f[k].val > m THEN f[k].val ELSE m

\* The sentinel string of calculate_mode, in ASCII.
NoUniqueMode == "No hay moda unica"

ModesOf(d) ==
    LET frequency == Frequency(d, Len(d))
        max_freq == MaxVals(frequency, Len(frequency), 0)
        hits == SelectSeq(frequency, LAMBDA e : e.val = max_freq)
    IN  [i \in 1..Len(hits) |-> hits[i].key]

\* Mutant of calculate_mode: the single-mode test made before the all-tied test.
calculate_mode_single_first(d) ==
    LET frequency == Frequency(d, Len(d))
        modes == ModesOf(d)
    IN  IF Len(modes) = 1
        THEN [tag |-> "num", val |-> modes[1]]
        ELSE IF Len(modes) = Len(frequency)
             THEN [tag |-> "str", val |-> NoUniqueMode]
             ELSE [tag |-> "list", val |-> modes]

\* Mutant of calculate_mode: a single mode returned as a one-element list.
calculate_mode_always_list(d) ==
    LET frequency == Frequency(d, Len(d))
        modes == ModesOf(d)
    IN  IF Len(modes) = Len(frequency)
        THEN [tag |-> "str", val |-> NoUniqueMode]
        ELSE [tag |-> "list", val |-> modes]

calculate_mode(d) ==
    LET frequency == Frequency(d, Len(d))
        modes == ModesOf(d)
    IN  IF Len(modes) = Len(frequency)
        THEN [tag |-> "str", val |-> NoUniqueMode]
        ELSE IF Len(modes) = 1
             THEN [tag |-> "num", val |-> modes[1]]
             ELSE [tag |-> "list", val |-> modes]

(***************************************************************************)
(* calculate_variance(data, mean_value)                                    *)
(***************************************************************************)
RECURSIVE SumSquaredDiff(_, _, _)
SumSquaredDiff(d, k, mean_value) ==
    IF k = 0
    THEN Zero
    ELSE LET diff == RSub(Rat(d[k]), mean_value)
         IN  RAdd(SumSquaredDiff(d, k - 1, mean_value), RMul(diff, diff))

\* Mutant of calculate_variance: the population divisor n.
calculate_variance_population(d, mean_value) ==
    LET n == Len(d)
    IN  IF n <= 1
        THEN Zero
        ELSE RDiv(SumSquaredDiff(d, n, mean_value), Rat(n))

calculate_variance(d, mean_value) ==
    LET n == Len(d)
    IN  IF n <= 1
        THEN Zero
        ELSE RDiv(SumSquaredDiff(d, n, mean_value), Rat(n - 1))

(***************************************************************************)
(* sqrt_newton(x), one action per step of the function.                    *)
(***************************************************************************)
NewtonIterations == 20

NewtonStep(g, a) == RoundQ(RDiv(RAdd(g, RDiv(a, g)), Rat(2)))

\* The two guards of sqrt_newton and the initialisation of the estimate.
SqrtGuards(a) ==
    IF RLess(a, Zero)
    THEN [pc |-> "raised", err |-> "ValueError", guess |-> Zero, ret |-> Zero]
    ELSE IF a = Zero
         THEN [pc |-> "sqrt_return", err |-> "none", guess |-> Zero, ret |-> Zero]
         ELSE [pc |-> "sqrt_loop", err |-> "none", guess |-> a, ret |-> Zero]

SqrtEnter ==
    /\ pc = "sqrt_newton"
    /\ LET r == SqrtGuards(x)
       IN  /\ pc' = r.pc
           /\ err' = r.err
           /\ guess' = r.guess
           /\ ret' = r.ret
    /\ iter' = 0
    /\ divs' = 0
    /\ UNCHANGED <<entry, x, statVars, convVars, wordVars>>

\* Mutant of LoopContinues: one pass short.
LoopContinuesOneShort(i) == i < NewtonIterations - 1

\* Whether the for loop has another pass to make.
LoopContinues(i) == i < NewtonIterations

SqrtStep ==
    /\ pc = "sqrt_loop"
    /\ LoopContinues(iter)
    /\ IF guess = Zero
       THEN /\ pc' = "raised"
            /\ err' = "ZeroDivisionError"
            /\ UNCHANGED <<guess, iter, divs>>
       ELSE /\ guess' = NewtonStep(guess, x)
            /\ iter' = iter + 1
            /\ divs' = divs + 1
            /\ UNCHANGED <<pc, err>>
    /\ UNCHANGED <<entry, x, ret, statVars, convVars, wordVars>>

SqrtLoopEnd ==
    /\ pc = "sqrt_loop"
    /\ ~LoopContinues(iter)
    /\ ret' = guess
    /\ pc' = "sqrt_return"
    /\ UNCHANGED <<entry, err, x, guess, iter, divs, statVars, convVars, wordVars>>

\* sqrt_newton returns to its caller: compute_statistics stores the value.
SqrtReturn ==
    /\ pc = "sqrt_return"
    /\ pc' = "returned"
    /\ stats' = IF entry = "sqrt_newton"
                THEN stats
                ELSE stats @@ ("std_deviation" :> ret)
    /\ UNCHANGED <<entry, data, sorted_data, err, sqrtVars, convVars, wordVars>>

(***************************************************************************)
(* main and compute_statistics of P1.                                      *)
(***************************************************************************)
EmptyDict == [k \in {} |-> 0]

Main ==
    /\ pc = "main"
    /\ IF Len(data) = 0
       THEN pc' = "exited" /\ err' = "SystemExit"
       ELSE pc' = "compute_statistics" /\ err' = err
    /\ UNCHANGED <<entry, statVars, sqrtVars, convVars, wordVars>>

StatsCount ==
    /\ pc = "compute_statistics"
    /\ stats' = ("count" :> Len(data))
    /\ pc' = "mean"
    /\ UNCHANGED <<entry, data, sorted_data, err, sqrtVars, convVars, wordVars>>

StatsMean ==
    /\ pc = "mean"
    /\ stats' = stats @@ ("mean" :> calculate_mean(data))
    /\ pc' = "median"
    /\ UNCHANGED <<entry, data, sorted_data, err, sqrtVars, convVars, wordVars>>

StatsMedian ==
    /\ pc = "median"
    /\ IF MedianRaises(data)
       THEN /\ pc' = "raised"
            /\ err' = "IndexError"
            /\ stats' = stats
       ELSE /\ pc' = "mode"
            /\ err' = err
            /\ stats' = stats @@ ("median" :> calculate_median(data))
    /\ sorted_data' = quicksort(data)
    /\ UNCHANGED <<entry, data, sqrtVars, convVars, wordVars>>

StatsMode ==
    /\ pc = "mode"
    /\ stats' = stats @@ ("mode" :> calculate_mode(data))
    /\ pc' = "variance"
    /\ UNCHANGED <<entry, data, sorted_data, err, sqrtVars, convVars, wordVars>>

StatsVariance ==
    /\ pc = "variance"
    /\ stats' = stats @@ ("variance" :> calculate_variance(data, stats["mean"]))
    /\ pc' = "std_deviation"
    /\ UNCHANGED <<entry, data, sorted_data, err, sqrtVars, convVars, wordVars>>

\* stats["std_deviation"] = sqrt_newton(stats["variance"]): the call.
StatsStdDeviation ==
    /\ pc = "std_deviation"
    /\ x' = stats["variance"]
    /\ pc' = "sqrt_newton"
    /\ UNCHANGED <<entry, err, statVars, guess, iter, divs, ret, convVars, wordVars>>

\* main formats, prints and saves the statistics it got back.
MainReport ==
    /\ pc = "returned"
    /\ entry = "main"
    /\ pc' = "reported"
    /\ UNCHANGED <<entry, err, statVars, sqrtVars, convVars, wordVars>>

ConvIdle ==
    /\ numIdx = 0
    /\ num = 0
    /\ binario = << >>
    /\ hexadecimal = << >>

WordIdle ==
    /\ lineNo = 0
    /\ line = << >>
    /\ lineWords = << >>
    /\ wordsLen = 0
    /\ words = << >>
    /\ freq = << >>
    /\ keys = << >>
    /\ sortI = 0
    /\ sortJ = 0
    /\ results = << >>

SqrtIdle ==
    /\ x = Zero
    /\ guess = Zero
    /\ iter = 0
    /\ divs = 0
    /\ ret = Zero

\* P1 entered by main (the dataset is what read_data returned) or by a direct
\* call of compute_statistics.
InitStats ==
    /\ entry \in {"main", "compute_statistics"}
    /\ pc = entry
    /\ data \in Datasets
    /\ stats = EmptyDict
    /\ sorted_data = << >>
    /\ err = "none"
    /\ SqrtIdle
    /\ ConvIdle
    /\ WordIdle

NextStats ==
    \/ Main
    \/ StatsCount
    \/ StatsMean
    \/ StatsMedian
    \/ StatsMode
    \/ StatsVariance
    \/ StatsStdDeviation
    \/ SqrtEnter
    \/ SqrtStep
    \/ SqrtLoopEnd
    \/ SqrtReturn
    \/ MainReport

SpecStats == InitStats /\ [][NextStats]_vars

(***************************************************************************)
(* sqrt_newton called directly, on any rational argument of the bounds.    *)
(***************************************************************************)
MaxArg == 9
MaxDen == 4

SqrtInputs == {Norm(n, d) : n \in (0 - MaxArg)..MaxArg, d \in 1..MaxDen}

InitSqrt ==
    /\ entry = "sqrt_newton"
    /\ pc = "sqrt_newton"
    /\ data = << >>
    /\ stats = EmptyDict
    /\ sorted_data = << >>
    /\ err = "none"
    /\ x \in SqrtInputs
    /\ guess = Zero
    /\ iter = 0
    /\ divs = 0
    /\ ret = Zero
    /\ ConvIdle
    /\ WordIdle

NextSqrt ==
    \/ SqrtEnter
    \/ SqrtStep
    \/ SqrtLoopEnd
    \/ SqrtReturn

SpecSqrt == InitSqrt /\ [][NextSqrt]_vars

(***************************************************************************)
(* P2: the integer operators of Python that the conversions use.  // and % *)
(* are floor division and its remainder, which \div and % are as well; &   *)
(* and >> act on the two's complement of unbounded width.                  *)
(***************************************************************************)
RECURSIVE BitAnd(_, _)
BitAnd(a, m) ==
    IF m = 0
    THEN 0
    ELSE (a % 2) * (m % 2) + 2 * BitAnd(a \div 2, m \div 2)

ShiftLeft(a, k) == a * (2 ^ k)
ShiftRight(a, k) == a \div (2 ^ k)

\* str(d) of a one-digit int, and hex_digits.
DecimalDigits == <<"0", "1", "2", "3", "4", "5", "6", "7", "8", "9">>
Str(d) == <<DecimalDigits[d + 1]>>
\* Mutant of hex_digits: lower-case letters.
hex_digits_lower == <<"0", "1", "2", "3", "4", "5", "6", "7",
                      "8", "9", "a", "b", "c", "d", "e", "f">>
hex_digits == <<"0", "1", "2", "3", "4", "5", "6", "7",
                "8", "9", "A", "B", "C", "D", "E", "F">>

(***************************************************************************)
(* convert_to_binary(num)                                                  *)
(***************************************************************************)
BinBits == 10

\* Mutant of BinaryNegLoop: the bits taken least-significant first.
RECURSIVE BinaryNegLoopLsbFirst(_, _, _, _)
BinaryNegLoopLsbFirst(value, bits, i, binary_str) ==
    IF i >= bits
    THEN binary_str
    ELSE LET bit == BitAnd(ShiftRight(value, i), 1)
         IN  BinaryNegLoopLsbFirst(value, bits, i + 1, binary_str \o Str(bit))

\* for i in range(bits): the string after the passes i, i+1, ..., bits-1.
RECURSIVE BinaryNegLoop(_, _, _, _)
BinaryNegLoop(value, bits, i, binary_str) ==
    IF i >= bits
    THEN binary_str
    ELSE LET bit == BitAnd(ShiftRight(value, bits - 1 - i), 1)
         IN  BinaryNegLoop(value, bits, i + 1, binary_str \o Str(bit))

\* while num > 0
RECURSIVE BinaryPosLoop(_, _)
BinaryPosLoop(n, binary_str) ==
    IF n > 0
    THEN BinaryPosLoop(n \div 2, Str(n % 2) \o binary_str)
    ELSE binary_str

convert_to_binary(n) ==
    IF n < 0
    THEN LET bits == BinBits
             mask == ShiftLeft(1, bits) - 1
             value == BitAnd(n, mask)
         IN  BinaryNegLoop(value, bits, 0, << >>)
    ELSE IF n = 0
         THEN <<"0">>
         ELSE BinaryPosLoop(n, << >>)

(***************************************************************************)
(* convert_to_hexadecimal(num).  num & ((1 << 32) - 1) does not fit a      *)
(* 31-bit integer: it is held as <<hi, lo>>, two limbs of 16 bits, value   *)
(* hi * 2^16 + lo.                                                         *)
(***************************************************************************)
HexBits == 32
HexDigitCount == 8
Limb == 2 ^ 16

\* num & mask, mask = (1 << bits) - 1, for bits between one limb and two.
WideAnd(n, bits) ==
    <<BitAnd(n \div Limb, ShiftLeft(1, bits - 16) - 1), BitAnd(n, Limb - 1)>>
\* value & 0xF
WideLowNibble(value) == BitAnd(value[2], 15)
\* value //= 16
WideDiv16(value) == <<value[1] \div 16, (value[2] \div 16) + (value[1] % 16) * (Limb \div 16)>>

\* for _ in range(8)
RECURSIVE HexNegLoop(_, _, _)
HexNegLoop(value, k, hex_str) ==
    IF k = 0
    THEN hex_str
    ELSE LET digit == WideLowNibble(value)
         IN  HexNegLoop(WideDiv16(value), k - 1, <<hex_digits[digit + 1]>> \o hex_str)

\* while num > 0
RECURSIVE HexPosLoop(_, _)
HexPosLoop(n, hex_str) ==
    IF n > 0
    THEN LET digit == n % 16
         IN  HexPosLoop(n \div 16, <<hex_digits[digit + 1]>> \o hex_str)
    ELSE hex_str

convert_to_hexadecimal(n) ==
    IF n < 0
    THEN LET bits == HexBits
             value == WideAnd(n, bits)
         IN  HexNegLoop(value, HexDigitCount, << >>)
    ELSE IF n = 0
         THEN <<"0">>
         ELSE HexPosLoop(n, << >>)

(***************************************************************************)
(* main of P2: the for loop over the integers read_numbers returned.  The  *)
(* file's integers are drawn one at a time; resultados is kept as the      *)
(* number of lines appended.                                               *)
(***************************************************************************)
MaxNums == 2
MaxNum == 530

PowersOfTwo == {2 ^ k : k \in {10, 11, 16, 24, 30}}
ConvInputs ==
    ((0 - MaxNum)..MaxNum)
        \cup PowersOfTwo \cup {p - 1 : p \in PowersOfTwo}
        \cup {0 - p : p \in PowersOfTwo} \cup {0 - p - 1 : p \in PowersOfTwo}
        \cup {2147483647, 0 - 2147483647}

ConvNext ==
    /\ pc = "conv_loop"
    /\ numIdx < MaxNums
    /\ \E n \in ConvInputs : num' = n
    /\ pc' = "conv_binary"
    /\ UNCHANGED <<entry, err, statVars, sqrtVars, numIdx, binario, hexadecimal, wordVars>>

ConvBinary ==
    /\ pc = "conv_binary"
    /\ binario' = convert_to_binary(num)
    /\ pc' = "conv_hex"
    /\ UNCHANGED <<entry, err, statVars, sqrtVars, numIdx, num, hexadecimal, wordVars>>

ConvHex ==
    /\ pc = "conv_hex"
    /\ hexadecimal' = convert_to_hexadecimal(num)
    /\ pc' = "conv_append"
    /\ UNCHANGED <<entry, err, statVars, sqrtVars, numIdx, num, binario, wordVars>>

\* resultados.append(...): the three loop variables are dead from here until the
\* next pass overwrites them, and are cleared.
ConvAppend ==
    /\ pc = "conv_append"
    /\ numIdx' = numIdx + 1
    /\ num' = 0
    /\ binario' = << >>
    /\ hexadecimal' = << >>
    /\ pc' = "conv_loop"
    /\ UNCHANGED <<entry, err, statVars, sqrtVars, wordVars>>

\* The list is exhausted: the elapsed time is appended, the text printed and saved.
ConvFinish ==
    /\ pc = "conv_loop"
    /\ pc' = "conv_done"
    /\ UNCHANGED <<entry, err, statVars, sqrtVars, convVars, wordVars>>

InitConv ==
    /\ entry = "convert_main"
    /\ pc = "conv_loop"
    /\ data = << >>
    /\ stats = EmptyDict
    /\ sorted_data = << >>
    /\ err = "none"
    /\ SqrtIdle
    /\ ConvIdle
    /\ WordIdle

NextConv ==
    \/ ConvNext
    \/ ConvBinary
    \/ ConvHex
    \/ ConvAppend
    \/ ConvFinish

SpecConv == InitConv /\ [][NextConv]_vars

(***************************************************************************)
(* P3 read_words.  str.isspace and str.strip use one classification of     *)
(* white space: these code points.                                         *)
(***************************************************************************)
Whitespace ==
    (9..13) \cup (28..32) \cup {133, 160, 5760} \cup (8192..8202)
        \cup {8232, 8233, 8239, 8287, 12288}
IsSpace(c) == c \in Whitespace

\* line.strip()
RECURSIVE LStrip(_)
LStrip(s) == IF s # << >> /\ IsSpace(Head(s)) THEN LStrip(Tail(s)) ELSE s
RECURSIVE RStrip(_)
RStrip(s) ==
    IF s # << >> /\ IsSpace(s[Len(s)]) THEN RStrip(SubSeq(s, 1, Len(s) - 1)) ELSE s
Strip(s) == RStrip(LStrip(s))

\* for char in line: the words appended and current_word after the first k
\* characters.
RECURSIVE ScanChars(_, _)
ScanChars(ln, k) ==
    IF k = 0
    THEN [appended |-> << >>, current_word |-> << >>]
    ELSE LET st == ScanChars(ln, k - 1)
             char == ln[k]
         IN  IF IsSpace(char)
             THEN IF st.current_word # << >>
                  THEN [appended |-> Append(st.appended, st.current_word),
                        current_word |-> << >>]
                  ELSE st
             ELSE [appended |-> st.appended,
                   current_word |-> Append(st.current_word, char)]

\* Mutant of ScanLine: the word still open at the end of the line is not appended.
ScanLineNoFlush(ln) == ScanChars(ln, Len(ln)).appended

\* The words one stripped, non-empty line appends to words.
ScanLine(ln) ==
    LET st == ScanChars(ln, Len(ln))
    IN  IF st.current_word # << >>
        THEN Append(st.appended, st.current_word)
        ELSE st.appended

\* The body of the loop over the lines of the file.
ReadWordsOfLine(raw) ==
    LET stripped == Strip(raw)
    IN  IF stripped = << >> THEN << >> ELSE ScanLine(stripped)

(***************************************************************************)
(* read_words, line by line.  The lines of the file are drawn one at a     *)
(* time; of words, the part appended for the current line is kept and the  *)
(* rest only counted.                                                      *)
(***************************************************************************)
MaxLines == 2
MaxLineLen == 5

\* space, tab, no-break space, "a", "B"
LineChars == {32, 9, 160, 97, 66}
Lines == UNION {[1..k -> LineChars] : k \in 0..MaxLineLen}

ReadLine ==
    /\ pc = "read_words"
    /\ lineNo < MaxLines
    /\ \E ln \in Lines : line' = ln
    /\ lineNo' = lineNo + 1
    /\ pc' = "read_line"
    /\ UNCHANGED <<entry, err, statVars, sqrtVars, convVars, lineWords, wordsLen, countVars>>

ReadScan ==
    /\ pc = "read_line"
    /\ lineWords' = ReadWordsOfLine(line)
    /\ pc' = "read_scanned"
    /\ UNCHANGED <<entry, err, statVars, sqrtVars, convVars, lineNo, line, wordsLen, countVars>>

\* The next pass of the loop: line is overwritten, the words of this line are
\* part of words for good.
ReadNext ==
    /\ pc = "read_scanned"
    /\ wordsLen' = wordsLen + Len(lineWords)
    /\ line' = << >>
    /\ lineWords' = << >>
    /\ pc' = "read_words"
    /\ UNCHANGED <<entry, err, statVars, sqrtVars, convVars, lineNo, countVars>>

\* The file is exhausted: read_words returns.
ReadEnd ==
    /\ pc = "read_words"
    /\ pc' = "words_read"
    /\ UNCHANGED <<entry, err, statVars, sqrtVars, convVars, wordVars>>

InitRead ==
    /\ entry = "read_words"
    /\ pc = "read_words"
    /\ data = << >>
    /\ stats = EmptyDict
    /\ sorted_data = << >>
    /\ err = "none"
    /\ SqrtIdle
    /\ ConvIdle
    /\ WordIdle

NextRead ==
    \/ ReadLine
    \/ ReadScan
    \/ ReadNext
    \/ ReadEnd

SpecRead == InitRead /\ [][NextRead]_vars

(***************************************************************************)
(* P3 count_words                                                          *)
(***************************************************************************)
\* Mutant of FoldChar: 'Z' left out of the range.
FoldCharBelowZ(c) == IF 65 <= c /\ c < 90 THEN c + 32 ELSE c

\* 'A' <= char <= 'Z': chr(ord(char) + 32), else char
FoldChar(c) == IF 65 <= c /\ c <= 90 THEN c + 32 ELSE c

\* for char in word: w += ...
FoldWord(word) == [k \in 1..Len(word) |-> FoldChar(word[k])]

\* freq after the first k words
RECURSIVE CountTo(_, _)
CountTo(ws, k) ==
    IF k = 0
    THEN << >>
    ELSE LET f == CountTo(ws, k - 1)
             w == FoldWord(ws[k])
         IN  IF w \in DictKeys(f)
             THEN DictSet(f, w, DictGet(f, w, 0) + 1)
             ELSE DictSet(f, w, 1)

count_words(ws) == CountTo(ws, Len(ws))

(***************************************************************************)
(* P3 format_results: the bubble sort of the keys, one action per pass of  *)
(* each loop, and the lines emitted, kept as (word, frequency) pairs.      *)
(***************************************************************************)
\* keys[j] > keys[j + 1]: Python compares strings code point by code point, a
\* proper prefix being the smaller.
RECURSIVE StrGreater(_, _)
StrGreater(a, b) ==
    IF a = << >>
    THEN FALSE
    ELSE IF b = << >>
         THEN TRUE
         ELSE IF Head(a) # Head(b)
              THEN Head(a) > Head(b)
              ELSE StrGreater(Tail(a), Tail(b))

\* list(freq.keys())
KeyList(f) == [k \in 1..Len(f) |-> f[k].key]

\* keys[j], keys[j + 1] = keys[j + 1], keys[j]   (j counted from 0)
SwapAt(ks, j) ==
    [k \in 1..Len(ks) |-> IF k = j + 1 THEN ks[j + 2]
                          ELSE IF k = j + 2 THEN ks[j + 1] ELSE ks[k]]

\* Mutant of InnerBound: one comparison short in every pass.
InnerBoundShort(n, i) == n - i - 2

\* range(0, n - i - 1)
InnerBound(n, i) == n - i - 1

\* The list main got from read_words: up to MaxWords of these words.
MaxWords == 4

\* "A", "a", "Za", "a,", "[", "@"
WordChoices == { <<65>>, <<97>>, <<90, 97>>, <<97, 44>>, <<91>>, <<64>> }
WordLists == UNION {[1..k -> WordChoices] : k \in 0..MaxWords}

CountWords ==
    /\ pc = "count_words"
    /\ freq' = count_words(words)
    /\ pc' = "format_results"
    /\ UNCHANGED <<entry, err, statVars, sqrtVars, convVars, readVars,
                   words, keys, sortI, sortJ, results>>

FormatStart ==
    /\ pc = "format_results"
    /\ keys' = KeyList(freq)
    /\ sortI' = 0
    /\ sortJ' = 0
    /\ pc' = "sort_outer"
    /\ UNCHANGED <<entry, err, statVars, sqrtVars, convVars, readVars,
                   words, freq, results>>

\* for i in range(n)
SortOuter ==
    /\ pc = "sort_outer"
    /\ IF sortI < Len(keys)
       THEN pc' = "sort_inner" /\ sortJ' = 0
       ELSE pc' = "emit" /\ sortJ' = sortJ
    /\ UNCHANGED <<entry, err, statVars, sqrtVars, convVars, readVars,
                   words, freq, keys, sortI, results>>

\* for j in range(0, n - i - 1): compare and swap, or the end of the pass
SortInner ==
    /\ pc = "sort_inner"
    /\ IF sortJ < InnerBound(Len(keys), sortI)
       THEN /\ keys' = IF StrGreater(keys[sortJ + 1], keys[sortJ + 2])
                       THEN SwapAt(keys, sortJ)
                       ELSE keys
            /\ sortJ' = sortJ + 1
            /\ UNCHANGED <<pc, sortI>>
       ELSE /\ sortI' = sortI + 1
            /\ pc' = "sort_outer"
            /\ UNCHANGED <<keys, sortJ>>
    /\ UNCHANGED <<entry, err, statVars, sqrtVars, convVars, readVars,
                   words, freq, results>>

\* for word in keys: one line per word with freq[word]
FormatEmit ==
    /\ pc = "emit"
    /\ IF \A k \in 1..Len(keys) : keys[k] \in DictKeys(freq)
       THEN /\ results' = [k \in 1..Len(keys) |-> <<keys[k], DictGet(freq, keys[k], 0)>>]
            /\ pc' = "formatted"
            /\ err' = err
       ELSE /\ results' = results
            /\ pc' = "raised"
            /\ err' = "KeyError"
    /\ UNCHANGED <<entry, statVars, sqrtVars, convVars, readVars,
                   words, freq, keys, sortI, sortJ>>

InitWordCount ==
    /\ entry = "wordcount_main"
    /\ pc = "count_words"
    /\ data = << >>
    /\ stats = EmptyDict
    /\ sorted_data = << >>
    /\ err = "none"
    /\ SqrtIdle
    /\ ConvIdle
    /\ lineNo = 0
    /\ line = << >>
    /\ lineWords = << >>
    /\ wordsLen = 0
    /\ words \in WordLists
    /\ freq = << >>
    /\ keys = << >>
    /\ sortI = 0
    /\ sortJ = 0
    /\ results = << >>

NextWordCount ==
    \/ CountWords
    \/ FormatStart
    \/ SortOuter
    \/ SortInner
    \/ FormatEmit

SpecWordCount == InitWordCount /\ [][NextWordCount]_vars

(***************************************************************************)
(* Properties of P1.  The reference notions below are stated on the        *)
(* dataset itself, independently of the operators that model the code.     *)
(***************************************************************************)
RangeOf(s) == {s[i] : i \in 1..Len(s)}
CountIn(s, v) == Cardinality({i \in 1..Len(s) : s[i] = v})
IsNonDecreasing(s) == \A i \in 1..(Len(s) - 1) : s[i] <= s[i + 1]
SameMultiset(s, t) ==
    /\ Len(s) = Len(t)
    /\ \A v \in RangeOf(s) \cup RangeOf(t) : CountIn(s, v) = CountIn(t, v)

\* The non-decreasing arrangement of s, by rank: position i holds the value v
\* with (number of elements < v) < i <= (number of elements <= v).
RankSorted(s) ==
    [i \in 1..Len(s) |->
        CHOOSE v \in RangeOf(s) :
            /\ Cardinality({j \in 1..Len(s) : s[j] < v}) < i
            /\ i <= Cardinality({j \in 1..Len(s) : s[j] <= v})]

MaxCount(s) == CHOOSE c \in {CountIn(s, v) : v \in RangeOf(s)} :
                   \A v \in RangeOf(s) : CountIn(s, v) <= c
AtMax(s) == {v \in RangeOf(s) : CountIn(s, v) = MaxCount(s)}

MedianDone == "median" \in DOMAIN stats
ModeDone == "mode" \in DOMAIN stats
VarianceDone == "variance" \in DOMAIN stats
Sorted == MedianDone \/ err = "IndexError"

\* C1: quicksort returns its input rearranged in non-decreasing order, for every
\* list (empty, singleton, all equal, sorted, reverse-sorted included); it
\* terminates because each recursive call is on a strictly shorter list.
C1_QuicksortSorts ==
    /\ Sorted => IsNonDecreasing(sorted_data) /\ SameMultiset(sorted_data, data)
    /\ Len(data) > 1 =>
          /\ Len(LeftOf(data)) < Len(data)
          /\ Len(RightOf(data)) < Len(data)
          /\ Len(LeftOf(data)) + Len(MiddleOf(data)) + Len(RightOf(data)) = Len(data)

C1_Witness ==
    /\ pc = "mode"
    /\ data = <<1, 0 - 1, 1, 0, 0 - 1>>
    /\ sorted_data = <<0 - 1, 0 - 1, 0, 1, 1>>

\* C10: the median is the element at index n div 2 of the sorted data when n is
\* odd and the average of the elements at indices n/2 - 1 and n/2 when n is even
\* (0-based), whatever the order of the input.
C10_Median ==
    MedianDone =>
        LET n == Len(data)
            sr == RankSorted(data)
        IN  /\ n > 0
            /\ n % 2 = 1 => stats["median"] = <<sr[(n \div 2) + 1], 1>>
            /\ n % 2 = 0 =>
                  stats["median"][1] * 2
                      = (sr[n \div 2] + sr[(n \div 2) + 1]) * stats["median"][2]

C10_Witness ==
    /\ MedianDone
    /\ data = <<1, 0 - 1, 1, 0>>
    /\ stats["median"] = <<1, 2>>

\* C4: when as many values attain the maximum frequency as there are distinct
\* values, the mode of a non-empty dataset is the sentinel string.
C4_AllTiedNoUniqueMode ==
    (ModeDone /\ Cardinality(AtMax(data)) = Cardinality(RangeOf(data))) =>
        /\ stats["mode"].tag = "str"
        /\ stats["mode"].val = NoUniqueMode

C4_Witness ==
    /\ ModeDone
    /\ data = <<0, 1, 1, 0>>
    /\ stats["mode"].tag = "str"

\* C5 as stated: whenever exactly one value attains the maximum frequency, the
\* mode is that value, datasets with a single distinct value included.
C5_SingleModeScalar ==
    (ModeDone /\ Cardinality(AtMax(data)) = 1) =>
        /\ stats["mode"].tag = "num"
        /\ {stats["mode"].val} = AtMax(data)

\* C5 amended: with at least two distinct values and exactly one at the maximum
\* frequency the mode is that value; with a single distinct value it is the
\* sentinel string.
C5_SingleModeAmongSeveral ==
    /\ (ModeDone /\ Cardinality(AtMax(data)) = 1 /\ Cardinality(RangeOf(data)) >= 2) =>
          /\ stats["mode"].tag = "num"
          /\ {stats["mode"].val} = AtMax(data)
    /\ (ModeDone /\ Cardinality(RangeOf(data)) = 1) =>
          /\ stats["mode"].tag = "str"
          /\ stats["mode"].val = NoUniqueMode

C5_Witness ==
    /\ ModeDone
    /\ data = <<0, 1, 1>>
    /\ stats["mode"].tag = "num"
    /\ stats["mode"].val = 1

\* C6: when two or more but not all distinct values tie at the maximum
\* frequency, the mode lists exactly those values, each once, in ascending order.
C6_TiedModesAscending ==
    (ModeDone /\ Cardinality(AtMax(data)) >= 2
              /\ Cardinality(AtMax(data)) < Cardinality(RangeOf(data))) =>
        /\ stats["mode"].tag = "list"
        /\ RangeOf(stats["mode"].val) = AtMax(data)
        /\ Len(stats["mode"].val) = Cardinality(AtMax(data))
        /\ \A i \in 1..(Len(stats["mode"].val) - 1) :
               stats["mode"].val[i] < stats["mode"].val[i + 1]

\* C7: compute_statistics on an empty dataset ends in EmptyDatasetError, not in
\* a record of statistics and not in another error.
C7_EmptyDatasetError ==
    (entry = "compute_statistics" /\ Len(data) = 0 /\ pc \in {"raised", "returned"}) =>
        /\ pc = "raised"
        /\ err = "EmptyDatasetError"

\* With T the sum of the data, n^2 times the sum of the squared deviations from
\* the mean T / n is the sum of (n * x_i - T)^2.
RECURSIVE ScaledSquares(_, _, _)
ScaledSquares(s, k, t) ==
    IF k = 0
    THEN 0
    ELSE ScaledSquares(s, k - 1, t) + (Len(s) * s[k] - t) * (Len(s) * s[k] - t)

RECURSIVE PlainSum(_)
PlainSum(s) == IF s = << >> THEN 0 ELSE Head(s) + PlainSum(Tail(s))

\* C8: the variance is 0 for n <= 1 and otherwise the sum of the squared
\* deviations from the mean divided by n - 1 (never by n); it is never negative
\* and the standard-deviation step never raises the negative-domain error.
C8_SampleVariance ==
    /\ Len(data) <= 1 => calculate_variance(data, calculate_mean(data)) = <<0, 1>>
    /\ VarianceDone =>
          LET n == Len(data)
              v == stats["variance"]
          IN  /\ v[2] > 0
              /\ v[1] >= 0
              /\ n <= 1 => v = <<0, 1>>
              /\ n > 1 =>
                    v[1] * (n * n * (n - 1))
                        = v[2] * ScaledSquares(data, n, PlainSum(data))
    /\ err # "ValueError"
    /\ pc = "sqrt_newton" => ~RLess(x, Zero)

C8_Witness ==
    /\ pc = "returned"
    /\ data = <<1, 0, 1, 0 - 1>>
    /\ stats["variance"] = <<11, 12>>
    /\ "std_deviation" \in DOMAIN stats

(***************************************************************************)
(* Properties of sqrt_newton.                                              *)
(***************************************************************************)
\* a is e rounded to the model's precision: |a - e| <= 1 / (2 * Scale).
WithinRounding(a, e) ==
    LET d == RSub(a, e) IN Abs(d[1]) * 2 * Scale <= d[2]

SqrtEntered == pc # "sqrt_newton"
SqrtReturned == pc \in {"sqrt_return", "returned"}

C9_States ==
    /\ (SqrtEntered /\ RLess(x, Zero)) =>
          /\ pc = "raised"
          /\ err = "ValueError"
          /\ iter = 0
          /\ divs = 0
    /\ (SqrtEntered /\ x = Zero) =>
          /\ SqrtReturned
          /\ err = "none"
          /\ ret = Zero
          /\ iter = 0
          /\ divs = 0
    /\ (SqrtEntered /\ RLess(Zero, x)) =>
          /\ err = "none"
          /\ pc = "sqrt_loop" \/ SqrtReturned
          /\ guess # Zero
          /\ iter = 0 => guess = x
          /\ divs = iter
          /\ SqrtReturned => iter = 20 /\ ret = guess

C9_Refinement ==
    (pc = "sqrt_loop" /\ pc' = "sqrt_loop") =>
        /\ iter' = iter + 1
        /\ guess # Zero
        /\ WithinRounding(guess', RDiv(RAdd(guess, RDiv(x, guess)), Rat(2)))

\* C9: sqrt_newton raises the negative-domain error for x < 0 without refining,
\* returns 0 without dividing for x = 0, and for x > 0 starts from x and makes
\* exactly 20 steps estimate := (estimate + x / estimate) / 2, never dividing
\* by zero and never leaving the loop early.
C9_SqrtNewton == [] C9_States /\ [][C9_Refinement]_vars

C9_Witness ==
    /\ pc = "returned"
    /\ x = <<2, 1>>
    /\ iter = 20
    /\ divs = 20
    /\ ret # Zero

(***************************************************************************)
(* Properties of P2.  A numeral is read back digit by digit.               *)
(***************************************************************************)
BinChars == <<"0", "1">>
HexChars == <<"0", "1", "2", "3", "4", "5", "6", "7",
              "8", "9", "A", "B", "C", "D", "E", "F">>

DigitValue(c, chars) == (CHOOSE k \in 1..Len(chars) : chars[k] = c) - 1

RECURSIVE NumeralValue(_, _)
NumeralValue(s, chars) ==
    IF s = << >>
    THEN 0
    ELSE NumeralValue(SubSeq(s, 1, Len(s) - 1), chars) * Len(chars)
             + DigitValue(s[Len(s)], chars)

BinaryDone == pc \in {"conv_hex", "conv_append"}
HexDone == pc = "conv_append"

\* C2: for n < 0 convert_to_binary(n) is 10 binary digits, most significant
\* first, of value n mod 2^10 (below -512 the value is truncated, no error is
\* raised); for n >= 0 it is the minimal binary numeral of n.
C2_Binary ==
    BinaryDone =>
        /\ err = "none"
        /\ RangeOf(binario) \subseteq RangeOf(BinChars)
        /\ num < 0 =>
              /\ Len(binario) = 10
              /\ NumeralValue(binario, BinChars) = num % (2 ^ 10)
        /\ num >= 0 =>
              /\ NumeralValue(binario, BinChars) = num
              /\ num = 0 => binario = <<"0">>
              /\ num > 0 => binario[1] = "1"

C2_Witness ==
    /\ BinaryDone
    /\ num = 0 - 513
    /\ binario = <<"0", "1", "1", "1", "1", "1", "1", "1", "1", "1">>

\* C3: for n < 0 convert_to_hexadecimal(n) is 8 upper-case hexadecimal digits,
\* most significant first, of value n mod 2^32 (stated on its two 16-bit
\* halves); for n >= 0 it is the minimal upper-case hexadecimal numeral of n.
C3_Hexadecimal ==
    HexDone =>
        /\ err = "none"
        /\ RangeOf(hexadecimal) \subseteq RangeOf(HexChars)
        /\ num < 0 =>
              /\ Len(hexadecimal) = 8
              /\ NumeralValue(SubSeq(hexadecimal, 1, 4), HexChars)
                     = (num \div (2 ^ 16)) % (2 ^ 16)
              /\ NumeralValue(SubSeq(hexadecimal, 5, 8), HexChars) = num % (2 ^ 16)
        /\ num >= 0 =>
              /\ NumeralValue(hexadecimal, HexChars) = num
              /\ num = 0 => hexadecimal = <<"0">>
              /\ num > 0 => hexadecimal[1] # "0"

C3_Witness ==
    /\ HexDone
    /\ num = 0 - 65537
    /\ hexadecimal = <<"F", "F", "F", "E", "F", "F", "F", "F">>

(***************************************************************************)
(* Properties of P3.  The maximal runs of non-white-space characters of a  *)
(* line are stated by their positions in the line.                         *)
(***************************************************************************)
RunStarts(ln) ==
    {k \in 1..Len(ln) : ~IsSpace(ln[k]) /\ (k = 1 \/ IsSpace(ln[k - 1]))}
RunEnd(ln, k) ==
    CHOOSE e \in k..Len(ln) :
        /\ \A m \in k..e : ~IsSpace(ln[m])
        /\ e = Len(ln) \/ IsSpace(ln[e + 1])
\* The m-th run from the left.
NthRun(ln, m) ==
    LET k == CHOOSE t \in RunStarts(ln) :
                 Cardinality({u \in RunStarts(ln) : u <= t}) = m
    IN  SubSeq(ln, k, RunEnd(ln, k))

RECURSIVE Concat(_)
Concat(ss) == IF ss = << >> THEN << >> ELSE Head(ss) \o Concat(Tail(ss))

LineScanned == pc = "read_scanned"

\* C11: the tokens read_words takes from a line are exactly the maximal runs of
\* non-white-space characters of the line, left to right: none is empty, none
\* holds a white-space character, together they are the line without its white
\* space, and an empty or all-white-space line gives none.
C11_TokensAreRuns ==
    LineScanned =>
        /\ Len(lineWords) = Cardinality(RunStarts(line))
        /\ \A m \in 1..Len(lineWords) :
              /\ lineWords[m] = NthRun(line, m)
              /\ lineWords[m] # << >>
              /\ \A k \in 1..Len(lineWords[m]) : ~IsSpace(lineWords[m][k])
        /\ Concat(lineWords) = SelectSeq(line, LAMBDA c : ~IsSpace(c))
        /\ (\A k \in 1..Len(line) : IsSpace(line[k])) => lineWords = << >>

C11_Witness ==
    /\ LineScanned
    /\ line = <<32, 97, 160, 9, 66>>
    /\ lineWords = << <<97>>, <<66>> >>

\* The folding the counter is to apply: each of A-Z replaced by the letter of
\* a-z at the same place in the alphabet, every other character kept.
LowerOf(c) ==
    IF c \in 65..90 THEN CHOOSE l \in 97..122 : l - 97 = c - 65 ELSE c
Folded(w) == [k \in 1..Len(w) |-> LowerOf(w[k])]

RECURSIVE SumVals(_)
SumVals(f) == IF f = << >> THEN 0 ELSE Head(f).val + SumVals(Tail(f))

Counted == pc # "count_words"

\* C12: the keys of the table count_words returns are exactly the distinct
\* folded tokens, each once, each with the number of tokens that fold to it: a
\* count is at least 1, the counts add up to the number of tokens, tokens that
\* differ only in the case of ASCII letters share an entry and others do not.
C12_CountsOfFoldedTokens ==
    Counted =>
        /\ \A a, b \in 1..Len(freq) : a # b => freq[a].key # freq[b].key
        /\ DictKeys(freq) = {Folded(words[k]) : k \in 1..Len(words)}
        /\ \A e \in 1..Len(freq) :
              /\ freq[e].val
                     = Cardinality({k \in 1..Len(words) : Folded(words[k]) = freq[e].key})
              /\ freq[e].val >= 1
        /\ SumVals(freq) = Len(words)
        /\ \A a, b \in 1..Len(words) :
              (Folded(words[a]) = Folded(words[b]))
                  <=> (\E e \in 1..Len(freq) :
                          /\ freq[e].key = FoldWord(words[a])
                          /\ freq[e].key = FoldWord(words[b]))

C12_Witness ==
    /\ pc = "format_results"
    /\ words = << <<65>>, <<97, 44>>, <<97>>, <<90, 97>> >>
    /\ freq = << [key |-> <<97>>, val |-> 2],
                 [key |-> <<97, 44>>, val |-> 1],
                 [key |-> <<122, 97>>, val |-> 1] >>

\* a before b in the lexicographic order of the code points: at the first place
\* where they differ a has the smaller code point, or a ends there and b does not.
LexLess(a, b) ==
    \E k \in 1..(Len(a) + 1) :
        /\ \A m \in 1..(k - 1) : m <= Len(b) /\ a[m] = b[m]
        /\ k <= Len(b)
        /\ k = Len(a) + 1 \/ a[k] < b[k]

Sorting == pc \in {"sort_outer", "sort_inner", "emit"}

\* What is left of the two loops of the sort, and of format_results after them.
SortMeasure(p, i, j) ==
    LET n == Len(keys)
    IN  IF p = "sort_outer" THEN (n - i) * (n + 2) + n + 3
        ELSE IF p = "sort_inner" THEN (n - i) * (n + 2) + (n - j) + 2
        ELSE IF p = "emit" THEN 1
        ELSE 0

C13_States ==
    /\ err = "none"
    /\ Sorting => ENABLED NextWordCount
    /\ Sorting => SortMeasure(pc, sortI, sortJ) > 0
    /\ pc = "formatted" =>
          /\ Len(results) = Len(freq)
          /\ {results[k][1] : k \in 1..Len(results)} = {freq[e].key : e \in 1..Len(freq)}
          /\ \A k \in 1..Len(results) :
                \E e \in 1..Len(freq) :
                    freq[e].key = results[k][1] /\ freq[e].val = results[k][2]
          /\ \A k \in 1..(Len(results) - 1) : LexLess(results[k][1], results[k + 1][1])

C13_Step ==
    Sorting =>
        /\ freq' = freq
        /\ pc' # "emit" /\ pc' # "formatted" =>
              /\ Len(keys') = Len(keys)
              /\ RangeOf(keys') = RangeOf(keys)
        /\ SortMeasure(pc', sortI', sortJ') < SortMeasure(pc, sortI, sortJ)
        /\ SortMeasure(pc', sortI', sortJ') >= 0

\* C13: format_results lists each key of the table exactly once, in strictly
\* ascending order of the code points, with the count the table holds for it;
\* the sort ends (each step of it lowers a measure that stays non-negative, and
\* it can always take a step until the lines are emitted), only rearranges the
\* keys and leaves the table as it was.
C13_SortedListing == [] C13_States /\ [][C13_Step]_vars

C13_Witness ==
    /\ pc = "formatted"
    /\ words = << <<90, 97>>, <<97, 44>>, <<97>>, <<64>> >>
    /\ results = << << <<64>>, 1 >>, << <<97>>, 1 >>,
                    << <<97, 44>>, 1 >>, << <<122, 97>>, 1 >> >>

=============================================================================
